---------------------------- MODULE Spec2Model ----------------------------
(***************************************************************************)
(* Model of the musocks SOCKS4/4a/5 proxy: one accepted connection handled *)
(* by Handler::handle_conn (src/src/socks/server.rs), the SOCKS4 handshake *)
(* (socks4.rs), the SOCKS5 handshake (socks5.rs), connect_to_upstream      *)
(* (mod.rs) and the relay Handler::do_proxy / copy_and_drop.               *)
(*                                                                         *)
(* The client's byte stream is supplied lazily: every read of the handler  *)
(* draws the bytes it receives (or end-of-stream) from small sets.  Every  *)
(* write_all either succeeds, appending its bytes to `out`, or fails with  *)
(* an I/O error.                                                           *)
(***************************************************************************)
EXTENDS Integers, Sequences, FiniteSets, TLC

\* ------------------------------------------------------------------ bounds
MaxStr == 2       \* longest NUL-terminated / length-prefixed string drawn
MaxAuth == 2      \* largest n_auth (number of offered methods) drawn
MaxPayload == 2   \* most payload bytes each peer sends during the relay
MaxConns == 3     \* most iterations of the accept loop (values of conn_id)

\* ------------------------------------------------------- program constants
SOCKS4 == 4
SOCKS5 == 5
COMMAND_CONNECT == 1

S4Granted == 90            \* 0x5a
S4RejectedOrFailed == 91   \* 0x5b

S5Granted == 0
S5GeneralFailure == 1
S5NetworkUnreachable == 3
S5HostUnreachable == 4
S5ConnectionRefused == 5
S5CommandNotSupported == 7
S5AddressTypeNotSupported == 8

AuthMethodNone == 0
AuthMethodUsernamePassword == 2
AuthMethodNoAcceptableMethods == 255

AuthStatusSuccess == 0
AuthStatusFailure == 255

ENETUNREACH == 101
ECONNREFUSED == 111
EHOSTUNREACH == 113

\* --------------------------------------------------- input value domains
VersionBytes == {4, 5, 6}          \* preamble[0]
CommandBytes == {1, 2}             \* CONNECT, BIND
PortPairs == {<<0, 80>>, <<80, 0>>, <<31, 144>>}   \* the 2 port bytes as sent
StrBytes == {97, 255}              \* non-NUL string bytes: 'a', and 0xFF (never valid UTF-8)
MethodBytes == {0, 1, 2}           \* none, GSSAPI, username/password
ReqVersionBytes == {4, 5}          \* version byte of the SOCKS5 request
AtypBytes == {1, 2, 3, 4}          \* IPv4, (undefined), domain, IPv6
OsErrorCodes == {101, 110, 111, 113}

SeqsUpTo(S, n) == UNION {[1..k -> S] : k \in 0..n}
IPv4Addrs == {<<0, 0, 0, 0>>, <<0, 0, 0, 1>>, <<0, 0, 0, 255>>, <<0, 0, 1, 1>>,
              <<0, 1, 0, 1>>, <<1, 0, 0, 1>>, <<127, 0, 0, 1>>}
IPv6Addrs == {[i \in 1..16 |-> 0], [i \in 1..16 |-> IF i = 16 THEN 1 ELSE 0]}
Strings == SeqsUpTo(StrBytes, MaxStr)

\* Option<i32> of io::Error::raw_os_error: <<>> is None, <<c>> is Some(c)
OsOptions == {<<>>} \cup {<<c>> : c \in OsErrorCodes}

\* ------------------------------------------------------------ data types
IPv4(b) == [tag |-> "IPv4", bytes |-> b]
IPv6(b) == [tag |-> "IPv6", bytes |-> b]
Domain(b) == [tag |-> "Domain", bytes |-> b]

Request(c, a, p) == [command |-> c, address |-> a, port |-> p]
NoRequest == <<>>

NoResult == [kind |-> "none", msg |-> "", os |-> <<>>]
Ok == [kind |-> "Ok", msg |-> "", os |-> <<>>]
IoError(m, o) == [kind |-> "IoError", msg |-> m, os |-> o]
ProtocolError(m) == [kind |-> "ProtocolError", msg |-> m, os |-> <<>>]
Bail(m) == [kind |-> "Anyhow", msg |-> m, os |-> <<>>]

UnexpectedEof == IoError("unexpected eof", <<>>)
WriteFailed == IoError("write failed", <<>>)

BadIsSocks4a(dst_addr) ==
    dst_addr[1] = 0 /\ dst_addr[2] = 0 /\ dst_addr[3] = 0

is_socks4a(dst_addr) ==
    dst_addr[1] = 0 /\ dst_addr[2] = 0 /\ dst_addr[3] = 0 /\ dst_addr[4] # 0

BadU16FromBytes(hi, lo) == lo * 256 + hi

u16_from_be_bytes(hi, lo) == hi * 256 + lo

\* Vec::pop: drops the last element, nothing on an empty vector
Pop(v) == IF v = <<>> THEN v ELSE SubSeq(v, 1, Len(v) - 1)

Contains(s, b) == \E i \in 1..Len(s) : s[i] = b


\* std::str::from_utf8: length of the well-formed UTF-8 sequence starting at
\* d[i], or 0 when d[i..] does not start with one
Cont(d, i, lo, hi) == i <= Len(d) /\ d[i] >= lo /\ d[i] <= hi

Utf8SeqLen(d, i) ==
    LET b == d[i] IN
    IF b < 128 THEN 1
    ELSE IF b >= 194 /\ b <= 223 THEN
        IF Cont(d, i + 1, 128, 191) THEN 2 ELSE 0
    ELSE IF b >= 224 /\ b <= 239 THEN
        LET lo == IF b = 224 THEN 160 ELSE 128
            hi == IF b = 237 THEN 159 ELSE 191
        IN IF Cont(d, i + 1, lo, hi) /\ Cont(d, i + 2, 128, 191) THEN 3 ELSE 0
    ELSE IF b >= 240 /\ b <= 244 THEN
        LET lo == IF b = 240 THEN 144 ELSE 128
            hi == IF b = 244 THEN 143 ELSE 191
        IN IF Cont(d, i + 1, lo, hi) /\ Cont(d, i + 2, 128, 191)
              /\ Cont(d, i + 3, 128, 191) THEN 4 ELSE 0
    ELSE 0

RECURSIVE Utf8From(_, _)
Utf8From(d, i) ==
    IF i > Len(d) THEN TRUE
    ELSE LET n == Utf8SeqLen(d, i) IN
         IF n = 0 THEN FALSE ELSE Utf8From(d, i + n)

from_utf8_ok(d) == Utf8From(d, 1)

\* connect_to_upstream(addr, port): `net` is what the network answers to a
\* TcpStream::connect that is actually attempted (Ok or an io::Error).
\* A domain that is not UTF-8 fails before any connect; an empty host name
\* cannot be resolved, which surfaces as an io::Error without an OS code.
BadConnectToUpstream(addr, port, net) == net

connect_to_upstream(addr, port, net) ==
    IF addr.tag = "Domain" THEN
        IF ~from_utf8_ok(addr.bytes) THEN IoError("domain name is not utf-8", <<>>)
        ELSE IF addr.bytes = <<>> THEN IoError("failed to lookup address information", <<>>)
        ELSE net
    ELSE net

NetOutcomes == {Ok} \cup {IoError("connect failed", o) : o \in OsOptions}

unwrap_or(o, d) == IF o = <<>> THEN d ELSE o[1]

BadIoErrorToStatus(e) == S5GeneralFailure

io_error_to_status(e) ==
    LET c == unwrap_or(e.os, 0) IN
    IF c = ENETUNREACH THEN S5NetworkUnreachable
    ELSE IF c = ECONNREFUSED THEN S5ConnectionRefused
    ELSE IF c = EHOSTUNREACH THEN S5HostUnreachable
    ELSE S5GeneralFailure

\* Auth is "None" or "UsernamePassword"; the credential bytes are not looked at
BadDoAuthenticate(auth) == "Accept"

do_authenticate(auth) ==
    IF auth = "None" THEN "Accept" ELSE "Deny"

\* wire formats
socks4_response(status) == <<0, status, 0, 0, 0, 0, 0, 0>>
socks5_response(status) == <<SOCKS5, status, 0, 1, 0, 0, 0, 0, 0, 0>>
server_choice(method) == <<SOCKS5, method>>
auth_response(status) == <<1, status>>

\* ------------------------------------------------------------------ state
VARIABLES
    pc,         \* position of Handler::handle_conn and of the handshake it runs
    version,    \* preamble[0]
    pre1,       \* preamble[1]: SOCKS4 cmd or SOCKS5 n_auth
    out,        \* bytes written to the client by the handshake, in order
    cClosed,    \* the client's stream has ended (end-of-stream seen or sent)
    buf,        \* socks4::read_request: the 6 bytes port + address
    strReads,   \* number of read_until calls made
    methods,    \* socks5: the offered methods
    authLog,    \* socks5: the calls of do_authenticate, <<auth, result>> each
    userpass,   \* socks5: <<username, password>> once read
    reqRead,    \* socks5: read_request has been entered
    request,    \* the parsed Request, NoRequest before
    connects,   \* calls of connect_to_upstream, <<address, port>> each
    connRes,    \* result of connect_to_upstream
    upstream,   \* "none" | "open" | "closed": the upstream TcpStream
    result,     \* result of the handshake (or the bail of handle_conn)
    relay,      \* state of the relay (do_proxy), see RelayIdle
    domSent,    \* what the client sent for the SOCKS4a domain string, see Sent
    srv         \* Server::serve: the accept loop and the handlers it spawned

hsVars == <<version, pre1, out, buf, strReads, methods, authLog,
            userpass, reqRead, request, connects, connRes, result, domSent>>
vars == <<pc, cClosed, upstream, relay, hsVars, srv>>

Dirs == {"c2u", "u2c"}
Other(d) == IF d = "c2u" THEN "u2c" ELSE "c2u"

\* the relay: per direction d (c2u: client to upstream, u2c: upstream to
\* client) the copy_and_drop task, the bytes its source peer has sent, the
\* bytes in flight, the bytes written to its destination, copy_buf's count,
\* and whether the write side towards its destination has been shut down;
\* `early` is how many client bytes sat in the client's BufReader at handover
RelayIdle ==
    [task |-> [d \in Dirs |-> "idle"],
     early |-> 0,
     sent |-> [d \in Dirs |-> <<>>],
     stream |-> [d \in Dirs |-> <<>>],
     written |-> [d \in Dirs |-> <<>>],
     amt |-> [d \in Dirs |-> 0],
     wrShut |-> [d \in Dirs |-> FALSE],
     uClosed |-> FALSE,
     res |-> NoResult,
     ret |-> <<0, 0>>]

\* serve once the listener is bound: in the accept loop, conn_id = 0, no
\* handler spawned, nothing logged
ServeStart ==
    [pc |-> "accept", conn_id |-> 0, handlers |-> <<>>, acceptErrs |-> 0]

Init ==
    /\ pc = "preamble"
    /\ version = 0
    /\ pre1 = 0
    /\ out = <<>>
    /\ cClosed = FALSE
    /\ buf = <<>>
    /\ strReads = 0
    /\ methods = <<>>
    /\ authLog = <<>>
    /\ userpass = <<>>
    /\ reqRead = FALSE
    /\ request = NoRequest
    /\ connects = <<>>
    /\ connRes = NoResult
    /\ upstream = "none"
    /\ result = NoResult
    /\ relay = RelayIdle
    /\ domSent = <<<<>>, FALSE>>
    /\ srv = ServeStart

\* the handshake (or handle_conn) returns r: every local is dropped, an
\* upstream stream that was opened is closed with it
BadFail(r) ==
    /\ result' = r
    /\ pc' = "done"
    /\ UNCHANGED upstream

Fail(r) ==
    /\ result' = r
    /\ pc' = "done"
    /\ upstream' = IF upstream = "open" THEN "closed" ELSE upstream

\* reader.read_exact hit end-of-stream
ReadEof ==
    /\ cClosed' = TRUE
    /\ Fail(UnexpectedEof)

\* writer.write_all(bytes).await?: on success the bytes are on the wire and
\* the handler goes on at `next`; on failure the `?` returns the I/O error
WriteAll(bytes, ok, next) ==
    IF ok THEN /\ out' = out \o bytes
               /\ pc' = next
               /\ UNCHANGED <<result, upstream>>
    ELSE /\ out' = out
         /\ Fail(WriteFailed)

\* write the reply, then return the error r
WriteThenFail(bytes, ok, r) ==
    IF ok THEN /\ out' = out \o bytes
               /\ Fail(r)
    ELSE /\ out' = out
         /\ Fail(WriteFailed)

\* ------------------------------------------------- Handler::handle_conn
ReadPreamble ==
    /\ pc = "preamble"
    /\ \/ /\ ReadEof
          /\ UNCHANGED <<version, pre1>>
       \/ \E v \in VersionBytes, b \in CommandBytes \cup 0..MaxAuth :
            /\ version' = v
            /\ pre1' = b
            /\ IF v = SOCKS4 THEN
                   pc' = "s4_read_request" /\ UNCHANGED <<result, upstream>>
               ELSE IF v = SOCKS5 THEN
                   pc' = "s5_read_methods" /\ UNCHANGED <<result, upstream>>
               ELSE Fail(Bail("unsupported SOCKS version"))
            /\ UNCHANGED cClosed
    /\ UNCHANGED <<out, buf, strReads, methods, authLog, userpass,
                   reqRead, request, connects, connRes, relay, domSent, srv>>

\* ---------------------------------------------------- socks4::handshake
\* where socks4::handshake goes once read_request has returned `req`
BadS4AfterRequest(req) ==
    IF req.command # COMMAND_CONNECT THEN "s4_reject" ELSE "s4_granted"

S4AfterRequest(req) ==
    IF req.command # COMMAND_CONNECT THEN "s4_reject" ELSE "s4_connect"

\* read_request: reader.read_exact(&mut buf) of 2 + 4 bytes
S4ReadExact ==
    /\ pc = "s4_read_request"
    /\ \/ /\ ReadEof
          /\ UNCHANGED buf
       \/ \E p \in PortPairs, a \in IPv4Addrs :
            /\ buf' = p \o a
            /\ pc' = "s4_ident"
            /\ UNCHANGED <<cClosed, result, upstream>>
    /\ UNCHANGED <<version, pre1, out, strReads, methods, authLog, userpass,
                   reqRead, request, connects, connRes, relay, domSent, srv>>

\* what read_until(0, &mut v) leaves in v: the bytes `s` the client sent and
\* the terminator when it arrived (`term`), nothing once the stream has ended
ReadUntil(s, term) ==
    IF cClosed THEN <<>> ELSE IF term THEN s \o <<0>> ELSE s

\* what the client sent for that string before the stream delivered its
\* terminator or ended: <<bytes, terminated>>; nothing on an ended stream
Sent(s, term) == IF cClosed THEN <<<<>>, FALSE>> ELSE <<s, term>>

\* read_request: read_until(0, &mut ident); a literal address ends the
\* function here, a SOCKS4a address goes on to the domain string
S4ReadIdent ==
    /\ pc = "s4_ident"
    /\ \E s \in Strings, term \in BOOLEAN :
         LET dst_port == u16_from_be_bytes(buf[1], buf[2])
             dst_addr == SubSeq(buf, 3, 6)
         IN /\ cClosed' = (cClosed \/ ~term)
            /\ strReads' = strReads + 1
            /\ IF is_socks4a(dst_addr) THEN
                   /\ pc' = "s4_domain"
                   /\ UNCHANGED request
               ELSE
                   /\ request' = Request(pre1, IPv4(dst_addr), dst_port)
                   /\ pc' = S4AfterRequest(request')
    /\ UNCHANGED <<version, pre1, out, buf, methods, authLog, userpass,
                   reqRead, connects, connRes, upstream, result, relay, domSent, srv>>

\* read_request: read_until(0, &mut domain); domain.pop()
S4ReadDomain ==
    /\ pc = "s4_domain"
    /\ \E s \in Strings, term \in BOOLEAN :
         LET dst_port == u16_from_be_bytes(buf[1], buf[2])
             domain == ReadUntil(s, term)
         IN /\ cClosed' = (cClosed \/ ~term)
            /\ strReads' = strReads + 1
            /\ domSent' = Sent(s, term)
            /\ request' = Request(pre1, Domain(Pop(domain)), dst_port)
            /\ pc' = S4AfterRequest(request')
    /\ UNCHANGED <<version, pre1, out, buf, methods, authLog, userpass,
                   reqRead, connects, connRes, upstream, result, relay, srv>>

\* handshake: request.command != COMMAND_CONNECT
S4WriteReject ==
    /\ pc = "s4_reject"
    /\ \E ok \in BOOLEAN :
         WriteThenFail(socks4_response(S4RejectedOrFailed), ok,
                       ProtocolError("command not supported"))
    /\ UNCHANGED <<version, pre1, buf, strReads, methods, authLog, userpass,
                   reqRead, request, connects, connRes, cClosed, relay, domSent, srv>>

\* handshake: where the match on connect_to_upstream's result goes: Ok(x)
\* binds the upstream, Err(e) writes the failure reply and returns
BadS4AfterConnect(r) ==
    IF r = Ok THEN "s4_granted" ELSE "s4_connect"

S4AfterConnect(r) ==
    IF r = Ok THEN "s4_granted" ELSE "s4_failed"

\* handshake: connect_to_upstream(&request.address, request.port).await
S4Connect ==
    /\ pc = "s4_connect"
    /\ \E net \in NetOutcomes :
         LET r == connect_to_upstream(request.address, request.port, net) IN
         /\ connects' = Append(connects, <<request.address, request.port>>)
         /\ connRes' = r
         /\ upstream' = IF r = Ok THEN "open" ELSE upstream
         /\ pc' = S4AfterConnect(r)
    /\ UNCHANGED <<version, pre1, out, buf, strReads, methods, authLog, userpass,
                   reqRead, request, cClosed, result, relay, domSent, srv>>

\* handshake: the connect failed
S4WriteFailed ==
    /\ pc = "s4_failed"
    /\ \E ok \in BOOLEAN :
         WriteThenFail(socks4_response(S4RejectedOrFailed), ok, connRes)
    /\ UNCHANGED <<version, pre1, buf, strReads, methods, authLog, userpass,
                   reqRead, request, connects, connRes, cClosed, relay, domSent, srv>>

\* handshake: the connect succeeded; Ok(upstream) goes back to handle_conn
S4WriteGranted ==
    /\ pc = "s4_granted"
    /\ \E ok \in BOOLEAN :
         IF ok THEN /\ out' = out \o socks4_response(S4Granted)
                    /\ result' = Ok
                    /\ pc' = "split"
                    /\ UNCHANGED upstream
         ELSE /\ out' = out
              /\ Fail(WriteFailed)
    /\ UNCHANGED <<version, pre1, buf, strReads, methods, authLog, userpass,
                   reqRead, request, connects, connRes, cClosed, relay, domSent, srv>>

\* ---------------------------------------------------- socks5::handshake
\* authenticate_client: the method the offer `m` leads to: username/password
\* when it is offered anywhere, else none when offered, else none acceptable
BadChooseMethod(m) ==
    IF m # <<>> /\ m[1] \in {AuthMethodNone, AuthMethodUsernamePassword} THEN m[1]
    ELSE IF Contains(m, AuthMethodUsernamePassword) THEN AuthMethodUsernamePassword
    ELSE IF Contains(m, AuthMethodNone) THEN AuthMethodNone
    ELSE AuthMethodNoAcceptableMethods

ChooseMethod(m) ==
    IF Contains(m, AuthMethodUsernamePassword) THEN AuthMethodUsernamePassword
    ELSE IF Contains(m, AuthMethodNone) THEN AuthMethodNone
    ELSE AuthMethodNoAcceptableMethods

\* authenticate_client: read_available_methods, then the choice of method up
\* to the first write; do_authenticate(Auth::None) is called before the
\* server's choice is written
S5ReadMethods ==
    /\ pc = "s5_read_methods"
    /\ \/ /\ pre1 > 0
          /\ ReadEof
          /\ UNCHANGED <<methods, authLog>>
       \/ \E m \in [1..pre1 -> MethodBytes] :
            /\ methods' = m
            /\ IF ChooseMethod(m) = AuthMethodUsernamePassword THEN
                   /\ pc' = "s5_choose_userpass"
                   /\ UNCHANGED authLog
               ELSE IF ChooseMethod(m) = AuthMethodNone THEN
                   LET r == do_authenticate("None") IN
                   /\ authLog' = Append(authLog, <<"None", r>>)
                   /\ pc' = IF r = "Accept" THEN "s5_choose_none"
                            ELSE "s5_choose_no_acceptable"
               ELSE
                   /\ pc' = "s5_choose_no_acceptable"
                   /\ UNCHANGED authLog
            /\ UNCHANGED <<cClosed, result, upstream>>
    /\ UNCHANGED <<version, pre1, out, buf, strReads, userpass, reqRead,
                   request, connects, connRes, relay, domSent, srv>>

\* write_server_choice(writer, AuthMethod::UsernamePassword)
S5ChooseUserPass ==
    /\ pc = "s5_choose_userpass"
    /\ \E ok \in BOOLEAN :
         WriteAll(server_choice(AuthMethodUsernamePassword), ok, "s5_read_userpass")
    /\ UNCHANGED <<version, pre1, buf, strReads, methods, authLog, userpass,
                   reqRead, request, connects, connRes, cClosed, relay, domSent, srv>>

\* read_username_and_password, then do_authenticate on the credential
S5ReadUserPass ==
    /\ pc = "s5_read_userpass"
    /\ \/ /\ ReadEof
          /\ UNCHANGED <<userpass, authLog>>
       \/ \E username \in Strings, password \in Strings :
            /\ userpass' = <<username, password>>
            /\ authLog' = Append(authLog,
                   <<"UsernamePassword", do_authenticate("UsernamePassword")>>)
            /\ pc' = "s5_auth_response"
            /\ UNCHANGED <<cClosed, result, upstream>>
    /\ UNCHANGED <<version, pre1, out, buf, strReads, methods, reqRead,
                   request, connects, connRes, relay, domSent, srv>>

\* the match on the AuthResult of the last do_authenticate call
BadAuthDenied(log) == FALSE

AuthDenied(log) == log[Len(log)][2] = "Deny"

\* the match on the AuthResult: Deny writes the failure status and fails,
\* Accept writes the success status and authenticate_client returns Ok
S5WriteAuthResponse ==
    /\ pc = "s5_auth_response"
    /\ \E ok \in BOOLEAN :
         IF AuthDenied(authLog) THEN
             WriteThenFail(auth_response(AuthStatusFailure), ok,
                           ProtocolError("authentication failure"))
         ELSE
             WriteAll(auth_response(AuthStatusSuccess), ok, "s5_read_request")
    /\ UNCHANGED <<version, pre1, buf, strReads, methods, authLog, userpass,
                   reqRead, request, connects, connRes, cClosed, relay, domSent, srv>>

\* write_server_choice(writer, AuthMethod::None); authenticate_client returns Ok
S5ChooseNone ==
    /\ pc = "s5_choose_none"
    /\ \E ok \in BOOLEAN :
         WriteAll(server_choice(AuthMethodNone), ok, "s5_read_request")
    /\ UNCHANGED <<version, pre1, buf, strReads, methods, authLog, userpass,
                   reqRead, request, connects, connRes, cClosed, relay, domSent, srv>>

\* write_server_choice(writer, AuthMethod::NoAcceptableMethods), then the error
BadS5ChooseNoAcceptable ==
    /\ pc = "s5_choose_no_acceptable"
    /\ \E ok \in BOOLEAN :
         WriteAll(server_choice(AuthMethodNoAcceptableMethods), ok,
                  "s5_read_request")
    /\ UNCHANGED <<version, pre1, buf, strReads, methods, authLog, userpass,
                   reqRead, request, connects, connRes, cClosed, relay, domSent, srv>>

S5ChooseNoAcceptable ==
    /\ pc = "s5_choose_no_acceptable"
    /\ \E ok \in BOOLEAN :
         WriteThenFail(server_choice(AuthMethodNoAcceptableMethods), ok,
                       ProtocolError("no acceptable auth methods"))
    /\ UNCHANGED <<version, pre1, buf, strReads, methods, authLog, userpass,
                   reqRead, request, connects, connRes, cClosed, relay, domSent, srv>>

\* read_request: the address types the match on addr_buf[3] decodes
BadAtypSupported(a) == TRUE

AtypSupported(a) == a \in {1, 3, 4}

\* read_request: the 4 bytes version, command, reserved, address type
S5ReadRequestHeader ==
    /\ pc = "s5_read_request"
    /\ reqRead' = TRUE
    /\ \/ /\ ReadEof
          /\ UNCHANGED buf
       \/ \E v \in ReqVersionBytes, c \in CommandBytes, a \in AtypBytes :
            /\ buf' = <<v, c, 0, a>>
            /\ IF v # 5 THEN
                   Fail(ProtocolError("request is not SOCKS5"))
               ELSE
                   /\ pc' = IF AtypSupported(a) THEN "s5_read_address"
                            ELSE "s5_atyp_reject"
                   /\ UNCHANGED <<result, upstream>>
            /\ UNCHANGED cClosed
    /\ UNCHANGED <<version, pre1, out, strReads, methods, authLog, userpass,
                   request, connects, connRes, relay, domSent, srv>>

\* where socks5::handshake goes once read_request has returned `req`
BadS5AfterRequest(req) == "s5_connect"

S5AfterRequest(req) ==
    IF req.command # COMMAND_CONNECT THEN "s5_cmd_reject" ELSE "s5_connect"

\* the addresses a client can send for address type a
S5Addresses(a) ==
    IF a = 1 THEN {IPv4(b) : b \in IPv4Addrs}
    ELSE IF a = 4 THEN {IPv6(b) : b \in IPv6Addrs}
    ELSE {Domain(b) : b \in Strings}

\* read_request: the address of the type read, then the big-endian port
S5ReadAddress ==
    /\ pc = "s5_read_address"
    /\ \/ /\ ReadEof
          /\ UNCHANGED request
       \/ \E address \in S5Addresses(buf[4]), p \in PortPairs :
            /\ request' = Request(buf[2], address, u16_from_be_bytes(p[1], p[2]))
            /\ pc' = S5AfterRequest(request')
            /\ UNCHANGED <<cClosed, result, upstream>>
    /\ UNCHANGED <<version, pre1, out, buf, strReads, methods, authLog,
                   userpass, reqRead, connects, connRes, relay, domSent, srv>>

\* read_request: any other address type
S5WriteAtypReject ==
    /\ pc = "s5_atyp_reject"
    /\ \E ok \in BOOLEAN :
         WriteThenFail(socks5_response(S5AddressTypeNotSupported), ok,
                       ProtocolError("unknown address type"))
    /\ UNCHANGED <<version, pre1, buf, strReads, methods, authLog, userpass,
                   reqRead, request, connects, connRes, cClosed, relay, domSent, srv>>

\* handshake: request.command != COMMAND_CONNECT
S5WriteCmdReject ==
    /\ pc = "s5_cmd_reject"
    /\ \E ok \in BOOLEAN :
         WriteThenFail(socks5_response(S5CommandNotSupported), ok,
                       ProtocolError("command not supported"))
    /\ UNCHANGED <<version, pre1, buf, strReads, methods, authLog, userpass,
                   reqRead, request, connects, connRes, cClosed, relay, domSent, srv>>

\* handshake: connect_to_upstream(&request.address, request.port).await
S5Connect ==
    /\ pc = "s5_connect"
    /\ \E net \in NetOutcomes :
         LET r == connect_to_upstream(request.address, request.port, net) IN
         /\ connects' = Append(connects, <<request.address, request.port>>)
         /\ connRes' = r
         /\ upstream' = IF r = Ok THEN "open" ELSE upstream
         /\ pc' = IF r = Ok THEN "s5_granted" ELSE "s5_failed"
    /\ UNCHANGED <<version, pre1, out, buf, strReads, methods, authLog, userpass,
                   reqRead, request, cClosed, result, relay, domSent, srv>>

\* handshake: the connect failed: the classified status, then the error
BadS5WriteFailed ==
    /\ pc = "s5_failed"
    /\ \E ok \in BOOLEAN :
         WriteAll(socks5_response(io_error_to_status(connRes)), ok, "s5_granted")
    /\ UNCHANGED <<version, pre1, buf, strReads, methods, authLog, userpass,
                   reqRead, request, connects, connRes, cClosed, relay, domSent, srv>>

S5WriteFailed ==
    /\ pc = "s5_failed"
    /\ \E ok \in BOOLEAN :
         WriteThenFail(socks5_response(io_error_to_status(connRes)), ok, connRes)
    /\ UNCHANGED <<version, pre1, buf, strReads, methods, authLog, userpass,
                   reqRead, request, connects, connRes, cClosed, relay, domSent, srv>>

\* handshake: the connect succeeded; Ok((request, upstream)) goes back
S5WriteGranted ==
    /\ pc = "s5_granted"
    /\ \E ok \in BOOLEAN :
         IF ok THEN /\ out' = out \o socks5_response(S5Granted)
                    /\ result' = Ok
                    /\ pc' = "split"
                    /\ UNCHANGED upstream
         ELSE /\ out' = out
              /\ Fail(WriteFailed)
    /\ UNCHANGED <<version, pre1, buf, strReads, methods, authLog, userpass,
                   reqRead, request, connects, connRes, cClosed, relay, domSent, srv>>

\* ------------------------------------------------------------- the relay
\* the i-th payload byte each peer sends once the handshake is over
Payload(d, i) == IF d = "c2u" THEN 16 + i ELSE 32 + i

\* the source peer of direction d has ended its stream
SrcClosed(d) == IF d = "c2u" THEN cClosed ELSE relay.uClosed

\* the first k payload bytes of direction d
RECURSIVE PayloadSeq(_, _)
PayloadSeq(d, k) ==
    IF k = 0 THEN <<>> ELSE Append(PayloadSeq(d, k - 1), Payload(d, k))

\* handle_conn: what the reader given to do_proxy still holds when the
\* handshake's BufReader holds `rbuf`: client_reader itself is moved into
\* do_proxy, so its buffer goes along
BadProxyReader(rbuf) == <<>>

ProxyReader(rbuf) == rbuf

\* handle_conn: upstream.into_split(), then do_proxy polls both copy_and_drop;
\* the handshake's reads may have filled the client's BufReader with k bytes
\* the client sent right behind its request
StartProxy ==
    /\ pc = "split"
    /\ pc' = "proxy"
    /\ \E k \in 0..(IF cClosed THEN 0 ELSE MaxPayload) :
         LET rbuf == PayloadSeq("c2u", k) IN
         relay' = [relay EXCEPT !.task = [d \in Dirs |-> "running"],
                                !.early = k,
                                !.sent["c2u"] = rbuf,
                                !.stream["c2u"] = ProxyReader(rbuf)]
    /\ UNCHANGED <<cClosed, upstream, hsVars, srv>>

\* a peer sends its next payload byte
PeerSend(d) ==
    /\ pc = "proxy"
    /\ ~SrcClosed(d)
    /\ Len(relay.sent[d]) < MaxPayload
    /\ LET b == Payload(d, Len(relay.sent[d]) + 1) IN
       relay' = [relay EXCEPT !.sent[d] = Append(@, b),
                              !.stream[d] = Append(@, b)]
    /\ UNCHANGED <<pc, cClosed, upstream, hsVars, srv>>

\* a peer ends its stream (FIN)
PeerClose(d) ==
    /\ pc = "proxy"
    /\ ~SrcClosed(d)
    /\ IF d = "c2u" THEN cClosed' = TRUE /\ UNCHANGED relay
       ELSE relay' = [relay EXCEPT !.uClosed = TRUE] /\ UNCHANGED cClosed
    /\ UNCHANGED <<pc, upstream, hsVars, srv>>

\* tokio::try_join!(a, b) after a poll that left the tasks in `task`:
\* "err" as soon as one task has failed, "ok" once both have returned Ok,
\* "pending" otherwise
BadTryJoin(task) ==
    IF \E d \in Dirs : task[d] = "err" THEN "err"
    ELSE IF \E d \in Dirs : task[d] = "ok" THEN "ok"
    ELSE "pending"

try_join(task) ==
    IF \E d \in Dirs : task[d] = "err" THEN "err"
    ELSE IF \A d \in Dirs : task[d] = "ok" THEN "ok"
    ELSE "pending"

\* copy_and_drop of direction d returns: its writer is dropped, which shuts
\* down the write side towards its destination; the reader half is dropped
\* too, which closes nothing while the other half of that socket lives
BadDropHalves(wrShut, d) == [e \in Dirs |-> TRUE]

DropHalves(wrShut, d) == [wrShut EXCEPT ![d] = TRUE]

\* the pair try_join! yields: the results of its futures in the order they are
\* written, which handle_conn binds to (uploaded_bytes, downloaded_bytes)
BadJoinOutput(amt) == <<amt["u2c"], amt["c2u"]>>

JoinOutput(amt) == <<amt["c2u"], amt["u2c"]>>

\* do_proxy after task d moved to state st in relay r: when try_join! is
\* ready, do_proxy and handle_conn return; a task still running is dropped
\* with the join, and with it both sockets
Joined(r, d, st) ==
    LET task == [r.task EXCEPT ![d] = st]
        j == try_join(task)
        e == IoError("relay failed", <<>>)
    IN IF j = "pending" THEN
           /\ relay' = [r EXCEPT !.task = task, !.wrShut = DropHalves(@, d)]
           /\ UNCHANGED <<pc, upstream>>
       ELSE
           /\ relay' = [r EXCEPT
                  !.task = [x \in Dirs |-> IF task[x] = "running"
                                           THEN "dropped" ELSE task[x]],
                  !.wrShut = [x \in Dirs |-> TRUE],
                  !.res = IF j = "ok" THEN Ok ELSE e,
                  !.ret = IF j = "ok" THEN JoinOutput(r.amt) ELSE @]
           /\ pc' = "done"
           /\ upstream' = "closed"

\* copy_buf: one chunk read from the source is written to the destination
Copy(d) ==
    /\ pc = "proxy"
    /\ relay.task[d] = "running"
    /\ relay.stream[d] # <<>>
    /\ relay' = [relay EXCEPT !.stream[d] = Tail(@),
                              !.written[d] = Append(@, Head(relay.stream[d])),
                              !.amt[d] = @ + 1]
    /\ UNCHANGED <<pc, cClosed, upstream, hsVars, srv>>

\* copy_buf: the source signals end-of-stream: copy_and_drop returns Ok(n)
CopyEof(d) ==
    /\ pc = "proxy"
    /\ relay.task[d] = "running"
    /\ relay.stream[d] = <<>>
    /\ SrcClosed(d)
    /\ Joined(relay, d, "ok")
    /\ UNCHANGED <<cClosed, hsVars, srv>>

\* copy_buf: a read or a write fails: copy_and_drop returns the error
CopyFail(d) ==
    /\ pc = "proxy"
    /\ relay.task[d] = "running"
    /\ Joined(relay, d, "err")
    /\ UNCHANGED <<cClosed, hsVars, srv>>

Next ==
    \/ ReadPreamble
    \/ S4ReadExact
    \/ S4ReadIdent
    \/ S4ReadDomain
    \/ S4WriteReject
    \/ S4Connect
    \/ S4WriteFailed
    \/ S4WriteGranted
    \/ S5ReadMethods
    \/ S5ChooseUserPass
    \/ S5ReadUserPass
    \/ S5WriteAuthResponse
    \/ S5ChooseNone
    \/ S5ChooseNoAcceptable
    \/ S5ReadRequestHeader
    \/ S5ReadAddress
    \/ S5WriteAtypReject
    \/ S5WriteCmdReject
    \/ S5Connect
    \/ S5WriteFailed
    \/ S5WriteGranted
    \/ StartProxy
    \/ \E d \in Dirs : PeerSend(d)
    \/ \E d \in Dirs : PeerClose(d)
    \/ \E d \in Dirs : Copy(d)
    \/ \E d \in Dirs : CopyEof(d)
    \/ \E d \in Dirs : CopyFail(d)

Spec == Init /\ [][Next]_vars

\* ---------------------------------------------------------- Server::serve
\* The accept loop with the handlers it spawns.  Each handler is one run of
\* Handler::handle, of which the loop can observe nothing: it is kept by
\* the outcome of its handle_conn, whose steps are the actions above.
connVars == <<pc, cClosed, upstream, relay, hsVars>>

\* the results handle_conn can return to Handler::handle
HandlerOutcomes == {"ok", "handshake error", "connect error", "relay error"}

\* listener.accept() returned Err: the error is logged, the loop goes on
BadAcceptFailed(s) == [s EXCEPT !.pc = "exited"]

accept_failed(s) == [s EXCEPT !.acceptErrs = @ + 1]

\* Handler::handle: an Err of handle_conn is logged, the task ends either way
handle(h, outcome) == [h EXCEPT !.st = "done", !.outcome = outcome]

\* loop: conn_id += 1; accept() returns a connection; tokio::spawn(h.handle(..))
AcceptOk ==
    /\ srv.pc = "accept"
    /\ srv.conn_id < MaxConns
    /\ srv' = [srv EXCEPT
           !.conn_id = @ + 1,
           !.handlers = Append(@, [id |-> srv.conn_id + 1, st |-> "running",
                                   outcome |-> ""])]
    /\ UNCHANGED connVars

\* loop: conn_id += 1; accept() returns Err
AcceptErr ==
    /\ srv.pc = "accept"
    /\ srv.conn_id < MaxConns
    /\ srv' = accept_failed([srv EXCEPT !.conn_id = @ + 1])
    /\ UNCHANGED connVars

\* the spawned task of handler i runs to its end
HandlerReturns(i) ==
    /\ i \in 1..Len(srv.handlers)
    /\ srv.handlers[i].st = "running"
    /\ \E outcome \in HandlerOutcomes :
         srv' = [srv EXCEPT !.handlers[i] = handle(@, outcome)]
    /\ UNCHANGED connVars

ServeNext ==
    \/ AcceptOk
    \/ AcceptErr
    \/ \E i \in 1..MaxConns : HandlerReturns(i)

ServeSpec == Init /\ [][ServeNext]_vars

\* ------------------------------------------------------------ properties
IsPrefix(p, s) == Len(p) <= Len(s) /\ SubSeq(s, 1, Len(p)) = p
EndsWith(s, p) == Len(p) <= Len(s) /\ SubSeq(s, Len(s) - Len(p) + 1, Len(s)) = p

\* read_available_methods has returned the offer
MethodsRead == version = SOCKS5 /\ pc # "s5_read_methods" /\ Len(methods) = pre1

AuthAccepted == authLog # <<>> /\ \A i \in 1..Len(authLog) : authLog[i][2] = "Accept"
AuthDeniedOnce == \E i \in 1..Len(authLog) : authLog[i][2] = "Deny"
NothingAcceptable ==
    MethodsRead /\ ~Contains(methods, 0) /\ ~Contains(methods, 2)

\* C1: in socks5::handshake the CONNECT request is read and the upstream
\* connect is attempted only after do_authenticate has returned Accept; after
\* a Deny, or when no offered method is acceptable, the handshake fails
\* without reading the request and without any connect attempt.
C1_AuthGatesConnect ==
    version = SOCKS5 =>
      /\ (reqRead \/ connects # <<>> \/ upstream # "none") => AuthAccepted
      /\ (AuthDeniedOnce \/ NothingAcceptable) =>
            /\ ~reqRead
            /\ connects = <<>>
            /\ upstream = "none"
            /\ pc \in {"s5_auth_response", "s5_choose_no_acceptable", "done"}
            /\ pc = "done" => result.kind \in {"ProtocolError", "IoError"}

C1_Witness ==
    /\ version = SOCKS5
    /\ authLog = << <<"None", "Accept">> >>
    /\ Len(connects) = 1
    /\ result = Ok

\* C2 (as claimed): a client offering only method 0x02 receives 05 FF as the
\* answer to the method offer and the connection ends with no request read.
C2_Original ==
    (MethodsRead /\ methods = <<2>> /\ pc = "done" /\ result.kind = "ProtocolError")
      => (out = <<5, 255>> /\ ~reqRead)

\* C2 (amended): a client offering only method 0x02 is answered 05 02; once
\* its username/password record is read the server writes 01 FF and fails
\* with "authentication failure"; no request is read, no connect is made.
C2_DeniedAfterSelection ==
    (MethodsRead /\ methods = <<2>>) =>
      /\ ~reqRead /\ connects = <<>>
      /\ IsPrefix(out, <<5, 2, 1, 255>>)
      /\ userpass # <<>> => IsPrefix(<<5, 2>>, out)
      /\ pc = "done" => result.kind \in {"ProtocolError", "IoError"}
      /\ (pc = "done" /\ result.kind = "ProtocolError") =>
            /\ result = ProtocolError("authentication failure")
            /\ out = <<5, 2, 1, 255>>
            /\ userpass # <<>>

C2_Witness ==
    /\ methods = <<2>>
    /\ pc = "done"
    /\ result = ProtocolError("authentication failure")
    /\ out = <<5, 2, 1, 255>>

\* C3: an offer that contains both 0x00 and 0x02, in any order and among any
\* other methods, is answered 05 02 and never 05 00.
C3_UserPassPreferred ==
    (MethodsRead /\ Contains(methods, 0) /\ Contains(methods, 2)) =>
      /\ pc # "s5_choose_none"
      /\ out # <<>> => IsPrefix(<<5, 2>>, out)
      /\ (pc # "s5_choose_userpass" /\ result # WriteFailed) => IsPrefix(<<5, 2>>, out)
      /\ \A i \in 1..Len(authLog) : authLog[i][1] = "UsernamePassword"

C3_Witness ==
    /\ MethodsRead
    /\ methods = <<0, 2>>
    /\ IsPrefix(<<5, 2>>, out)

C5_HalfClose ==
    \A d \in Dirs :
      /\ (relay.task[d] = "ok" /\ relay.task[Other(d)] = "running") =>
            /\ relay.wrShut[d]
            /\ ~relay.wrShut[Other(d)]
            /\ pc = "proxy"
      /\ relay.task[d] = "dropped" => relay.task[Other(d)] = "err"
      /\ relay.task[d] = "ok" =>
            /\ SrcClosed(d)
            /\ relay.stream[d] = <<>>
            /\ relay.written[d] = relay.sent[d]

C5_Witness ==
    /\ relay.task["c2u"] = "ok"
    /\ relay.task["u2c"] = "running"
    /\ relay.wrShut["c2u"]
    /\ relay.written["u2c"] = <<Payload("u2c", 1)>>
    /\ relay.stream["u2c"] = <<Payload("u2c", 2)>>

\* the failure replies the protocol offers for a ProtocolError message
FailureReplies(msg) ==
    IF msg = "command not supported" THEN
        {socks4_response(91), socks5_response(7)}
    ELSE IF msg = "unknown address type" THEN {socks5_response(8)}
    ELSE IF msg = "authentication failure" THEN {<<1, 255>>}
    ELSE IF msg = "no acceptable auth methods" THEN {<<5, 255>>}
    ELSE {socks5_response(st) : st \in 1..8}

\* C6 (as claimed): every handshake that returns a ProtocolError has written
\* a reply for that failure to the client before returning.
C6_Original ==
    (pc = "done" /\ result.kind = "ProtocolError") =>
        \E r \in FailureReplies(result.msg) : EndsWith(out, r)

\* C7: a SOCKS4 CONNECT request with a literal IPv4 address connects to
\* exactly those 4 bytes and the big-endian port, and on a successful connect
\* writes 00 5A 00 00 00 00 00 00 and returns the upstream connection.
C7_Socks4Literal ==
    LET a == SubSeq(buf, 3, 6) IN
    (version = SOCKS4 /\ request # NoRequest /\ pre1 = 1
       /\ ~(a[1] = 0 /\ a[2] = 0 /\ a[3] = 0 /\ a[4] # 0)) =>
      /\ connects \in {<<>>, << <<IPv4(a), buf[1] * 256 + buf[2]>> >>}
      /\ pc # "s4_connect" => Len(connects) = 1
      /\ (connRes = Ok /\ pc # "s4_granted" /\ result # WriteFailed) =>
            /\ out = <<0, 90, 0, 0, 0, 0, 0, 0>>
            /\ result = Ok
            /\ upstream = IF pc = "done" THEN "closed" ELSE "open"
      /\ result = Ok => connRes = Ok

C7_Witness ==
    /\ version = SOCKS4
    /\ connects = << <<IPv4(<<127, 0, 0, 1>>), 8080>> >>
    /\ out = <<0, 90, 0, 0, 0, 0, 0, 0>>
    /\ result = Ok
    /\ upstream = "open"

\* C8: socks4::read_request yields Address::Domain, read from a second
\* NUL-terminated string, exactly when the address bytes are 0.0.0.x with
\* x # 0; every other address, 0.0.0.0 included, yields Address::IPv4 of the
\* 4 bytes and no second string is read.
C8_Socks4aRule ==
    LET a == SubSeq(buf, 3, 6)
        is4a == a[1] = 0 /\ a[2] = 0 /\ a[3] = 0 /\ a[4] \in 1..255
    IN /\ (version = SOCKS4 /\ request # NoRequest) =>
            /\ request.address.tag = "Domain" <=> is4a
            /\ request.address.tag \in {"Domain", "IPv4"}
            /\ request.address.tag = "IPv4" =>
                  (request.address.bytes = a /\ strReads = 1)
            /\ request.address.tag = "Domain" => strReads = 2
       /\ pc = "s4_domain" => is4a
       /\ (version = SOCKS4 /\ strReads = 2) => is4a

C8_Witness ==
    /\ version = SOCKS4
    /\ request # NoRequest
    /\ request.address = Domain(<<97>>)
    /\ strReads = 2
    /\ SubSeq(buf, 3, 6) = <<0, 0, 0, 255>>

\* C9: a request whose command is not CONNECT is answered with the version's
\* rejection reply (SOCKS4 status 0x5B, SOCKS5 status 0x07), the handshake
\* fails with ProtocolError("command not supported") and no upstream connect
\* is attempted.
C9_CommandRejected ==
    (request # NoRequest /\ request.command # 1) =>
      /\ connects = <<>>
      /\ upstream = "none"
      /\ pc \in {"s4_reject", "s5_cmd_reject", "done"}
      /\ (pc = "done" /\ result # WriteFailed) =>
            /\ result = ProtocolError("command not supported")
            /\ version = SOCKS4 => out = <<0, 91, 0, 0, 0, 0, 0, 0>>
            /\ version = SOCKS5 => EndsWith(out, <<5, 7, 0, 1, 0, 0, 0, 0, 0, 0>>)
                                   /\ Len(out) = 12

C9_Witness ==
    /\ version = SOCKS5
    /\ request # NoRequest
    /\ request.command = 2
    /\ pc = "done"
    /\ result = ProtocolError("command not supported")
    /\ out = <<5, 0, 5, 7, 0, 1, 0, 0, 0, 0, 0, 0>>

\* the status the claim gives for an OS error code (none: <<>>)
ClaimedStatus(os) ==
    IF os = <<101>> THEN 3
    ELSE IF os = <<111>> THEN 5
    ELSE IF os = <<113>> THEN 4
    ELSE 1

\* C10: when the upstream connect fails in socks5::handshake, the single
\* 10-byte reply carries the status that the failure cause determines
\* (101 -> 03, 111 -> 05, 113 -> 04, anything else -> 01), it is written
\* before the handshake returns the original I/O error, and no relay starts.
C10_ConnectFailureStatus ==
    (version = SOCKS5 /\ connRes.kind = "IoError") =>
      /\ Len(connects) = 1
      /\ upstream = "none"
      /\ \A d \in Dirs : relay.task[d] = "idle"
      /\ pc \in {"s5_failed", "done"}
      /\ pc = "s5_failed" => out = <<5, 0>>
      /\ (pc = "done" /\ result # WriteFailed) =>
            /\ result = connRes
            /\ out = <<5, 0, 5, ClaimedStatus(connRes.os), 0, 1, 0, 0, 0, 0, 0, 0>>

C10_Witness ==
    /\ version = SOCKS5
    /\ pc = "done"
    /\ connRes = IoError("connect failed", <<111>>)
    /\ result = connRes
    /\ out = <<5, 0, 5, 5, 0, 1, 0, 0, 0, 0, 0, 0>>

\* C11: when the relay returns successfully its pair is (uploaded,
\* downloaded): the first count is the number of bytes written to the
\* upstream, the second the number written to the client; every relayed byte
\* is counted, in the direction it travelled.
C11_CountsMatch ==
    /\ \A d \in Dirs : relay.amt[d] = Len(relay.written[d])
    /\ relay.res = Ok =>
          /\ relay.ret[1] = Len(relay.written["c2u"])
          /\ relay.ret[2] = Len(relay.written["u2c"])
          /\ relay.ret[1] = Len(relay.sent["c2u"])
          /\ relay.ret[2] = Len(relay.sent["u2c"])

C11_Witness ==
    /\ relay.res = Ok
    /\ relay.ret = <<1, 2>>
    /\ Len(relay.written["c2u"]) = 1
    /\ Len(relay.written["u2c"]) = 2

\* C12: no failure of a handler and no failure of accept() ends the accept
\* loop or touches another handler: the loop stays at accept, a step changes
\* at most one handler, spawned handlers are never removed, a finished
\* handler never changes, and an accept error changes no handler.
C12_Step ==
    /\ srv'.pc = "accept"
    /\ Len(srv'.handlers) >= Len(srv.handlers)
    /\ \A i \in 1..Len(srv.handlers) :
          /\ srv.handlers[i].st = "done" => srv'.handlers[i] = srv.handlers[i]
          /\ srv'.handlers[i] # srv.handlers[i] =>
                \A j \in 1..Len(srv.handlers) :
                    j # i => srv'.handlers[j] = srv.handlers[j]
    /\ srv'.acceptErrs # srv.acceptErrs =>
          /\ srv'.handlers = srv.handlers
          /\ srv'.acceptErrs = srv.acceptErrs + 1

C12_ServerSurvives == [](srv.pc = "accept") /\ [][C12_Step]_vars

C12_Witness ==
    /\ srv.pc = "accept"
    /\ srv.acceptErrs = 1
    /\ srv.handlers = << [id |-> 1, st |-> "done", outcome |-> "relay error"],
                         [id |-> 3, st |-> "done", outcome |-> "ok"] >>

\* C13: a SOCKS5 request with address type 0x03 and length 0 parses to an
\* empty Address::Domain with its port; the handshake goes on to the connect
\* attempt, whose failure is answered with a classified status reply and
\* returned as the I/O error, never as a ProtocolError without a connect.
C13_EmptyDomain ==
    (version = SOCKS5 /\ request # NoRequest /\ request.address = Domain(<<>>)
       /\ request.command = 1) =>
      /\ buf[4] = 3
      /\ request.port \in {80, 20480, 8080}
      /\ pc \in {"s5_connect", "s5_failed", "done"}
      /\ pc # "s5_connect" =>
            /\ connects = << <<Domain(<<>>), request.port>> >>
            /\ connRes.kind = "IoError"
      /\ (pc = "done" /\ result # WriteFailed) =>
            /\ result = connRes
            /\ out = <<5, 0, 5, 1, 0, 1, 0, 0, 0, 0, 0, 0>>
      /\ upstream = "none"

C13_Witness ==
    /\ version = SOCKS5
    /\ request # NoRequest
    /\ request = Request(1, Domain(<<>>), 80)
    /\ pc = "done"
    /\ result.kind = "IoError"
    /\ result = connRes
    /\ out = <<5, 0, 5, 1, 0, 1, 0, 0, 0, 0, 0, 0>>

\* C14: a SOCKS5 request whose address type is not 0x01, 0x03 or 0x04 is
\* answered with status 0x08 and fails, with no address or port read and no
\* connect attempt, whatever its command byte: with an unsupported command
\* too, the reply is 0x08 and not 0x07.
C14_AtypRejected ==
    (version = SOCKS5 /\ reqRead /\ Len(buf) = 4 /\ buf[1] = 5
       /\ buf[4] \notin {1, 3, 4}) =>
      /\ request = NoRequest
      /\ connects = <<>>
      /\ upstream = "none"
      /\ pc \in {"s5_atyp_reject", "done"}
      /\ ~cClosed
      /\ pc = "s5_atyp_reject" => out = <<5, 0>>
      /\ (pc = "done" /\ result # WriteFailed) =>
            /\ result = ProtocolError("unknown address type")
            /\ out = <<5, 0, 5, 8, 0, 1, 0, 0, 0, 0, 0, 0>>

C14_Witness ==
    /\ version = SOCKS5
    /\ buf = <<5, 2, 0, 2>>
    /\ pc = "done"
    /\ result = ProtocolError("unknown address type")
    /\ out = <<5, 0, 5, 8, 0, 1, 0, 0, 0, 0, 0, 0>>

\* C15 (as claimed): a NUL-terminated SOCKS4 string decodes to exactly the
\* bytes the client sent before the terminator, or the handshake fails when
\* the stream ends before the terminator; a domain cut off by end-of-stream
\* is never passed to the upstream connector.
C15_Original ==
    /\ (version = SOCKS4 /\ request # NoRequest
          /\ request.address.tag = "Domain") =>
            /\ domSent[2]
            /\ request.address.bytes = domSent[1]
    /\ (version = SOCKS4 /\ strReads >= 1 /\ cClosed
          /\ relay.task["c2u"] = "idle") =>
            /\ pc \notin {"s4_connect", "s4_granted", "s4_failed", "split"}
            /\ connects = <<>>
            /\ pc = "done" => result.kind \in {"IoError", "ProtocolError"}

\* C16: a handshake calls connect_to_upstream at most once, and once that
\* call has failed the connection only writes its failure reply and ends with
\* the connect error: no second attempt, no upstream, no relay task started
C16_SingleConnect ==
    /\ Len(connects) <= 1
    /\ connRes # NoResult => Len(connects) = 1
    /\ (connRes # NoResult /\ connRes # Ok) =>
          /\ connRes.kind = "IoError"
          /\ pc \in {"s4_failed", "s5_failed", "done"}
          /\ upstream = "none"
          /\ relay = RelayIdle
          /\ pc = "done" => result \in {connRes, WriteFailed}

C16_Witness ==
    /\ pc = "done"
    /\ Len(connects) = 1
    /\ connRes.kind = "IoError"
    /\ result = connRes
    /\ version = SOCKS4

\* the granted reply of the connection's protocol version
GrantedReply ==
    IF version = SOCKS4 THEN socks4_response(S4Granted)
    ELSE socks5_response(S5Granted)

\* the granted reply is the last thing the handshake wrote to the client
GrantedWritten == version \in {SOCKS4, SOCKS5} /\ EndsWith(out, GrantedReply)

\* the relay has started: a copy task has been polled or has moved a byte
RelayStarted ==
    \/ pc = "proxy"
    \/ \E d \in Dirs : relay.task[d] # "idle" \/ relay.written[d] # <<>>

\* C17: one connection goes request read -> connect succeeded -> granted
\* reply written -> relay started: a connect is attempted only with the
\* request read, the granted reply is written only after the connect has
\* succeeded, and no relay byte moves in either direction before the granted
\* reply is on the wire
C17_Ordering ==
    /\ connects # <<>> => request # NoRequest
    /\ connRes = Ok => connects # <<>>
    /\ GrantedWritten => connRes = Ok /\ upstream # "none"
    /\ RelayStarted => GrantedWritten /\ result = Ok
    /\ pc \in {"s4_granted", "s5_granted"} => connRes = Ok /\ ~GrantedWritten

C17_Witness ==
    /\ version = SOCKS4
    /\ GrantedWritten
    /\ connRes = Ok
    /\ relay.written["c2u"] # <<>>
    /\ relay.written["u2c"] # <<>>

\* C18: an offer with neither 0x00 nor 0x02 (the empty offer included) is
\* answered with exactly 05 FF and ProtocolError("no acceptable auth
\* methods"); do_authenticate is never called and nothing more is read from
\* the client: no username/password record, no request, no end-of-stream seen
C18_NoAcceptable ==
    NothingAcceptable =>
      /\ authLog = <<>>
      /\ userpass = <<>>
      /\ ~reqRead /\ buf = <<>> /\ strReads = 0 /\ request = NoRequest
      /\ ~cClosed
      /\ connects = <<>>
      /\ \/ pc = "s5_choose_no_acceptable" /\ out = <<>> /\ result = NoResult
         \/ /\ pc = "done"
            /\ \/ result = WriteFailed /\ out = <<>>
               \/ /\ result = ProtocolError("no acceptable auth methods")
                  /\ out = <<5, 255>>

C18_Witness ==
    /\ version = SOCKS5
    /\ pre1 = 0
    /\ NothingAcceptable
    /\ pc = "done"
    /\ out = <<5, 255>>
    /\ result = ProtocolError("no acceptable auth methods")

\* the same with a non-empty offer of unsupported methods only
C18_Offer_Witness ==
    /\ methods = <<1, 1>>
    /\ NothingAcceptable
    /\ pc = "done"
    /\ out = <<5, 255>>

\* how many bytes of `out` belong to the SOCKS5 method negotiation: the
\* server's choice, and the sub-negotiation answer after choosing 0x02
AuthReplyLen ==
    IF version # SOCKS5 THEN 0
    ELSE IF IsPrefix(<<SOCKS5, AuthMethodUsernamePassword>>, out) THEN
        IF Len(out) < 4 THEN Len(out) ELSE 4
    ELSE IF Len(out) < 2 THEN Len(out) ELSE 2

\* what the handshake wrote after the method negotiation
FinalReplies == SubSeq(out, AuthReplyLen + 1, Len(out))

\* the final replies a handshake of this version can write
FinalReplySet ==
    IF version = SOCKS4 THEN {socks4_response(st) : st \in {S4Granted, S4RejectedOrFailed}}
    ELSE {socks5_response(st) : st \in S5Granted..S5AddressTypeNotSupported}

\* C19: a connection's handshake writes at most one final reply (8 bytes for
\* SOCKS4, 10 bytes for SOCKS5), and it returns the upstream exactly when
\* that one reply is the granted one
C19_OneFinalReply ==
    /\ FinalReplies = <<>> \/ FinalReplies \in FinalReplySet
    /\ result = Ok <=> (FinalReplies # <<>> /\ FinalReplies = GrantedReply)
    /\ (FinalReplies # <<>> /\ FinalReplies # GrantedReply) =>
          /\ pc = "done"
          /\ result.kind \in {"ProtocolError", "IoError"}
          /\ upstream \in {"none", "closed"}
          /\ relay = RelayIdle

C19_Witness ==
    /\ version = SOCKS5
    /\ pc = "done"
    /\ connRes.kind = "IoError"
    /\ FinalReplies = socks5_response(S5ConnectionRefused)
    /\ result = connRes

\* the granted side of the equivalence, after the relay has ended
C19_Granted_Witness ==
    /\ version = SOCKS4
    /\ pc = "done"
    /\ result = Ok
    /\ FinalReplies = socks4_response(S4Granted)

\* C20: the bytes the client sent right behind its handshake, held in its
\* BufReader when the handshake returns, reach the upstream: what is written
\* to the upstream is, in order, a prefix of the client's payload and nothing
\* else; while the upload task runs nothing of the payload is lost, and when
\* it returns every payload byte, the early ones included, is written and
\* counted as uploaded
C20_BufferedBytesForwarded ==
    LET sent == relay.sent["c2u"]
        written == relay.written["c2u"]
    IN /\ relay.early <= Len(sent)
       /\ sent = PayloadSeq("c2u", Len(sent))
       /\ IsPrefix(written, sent)
       /\ relay.task["c2u"] \in {"running", "ok"} =>
             written \o relay.stream["c2u"] = sent
       /\ relay.task["c2u"] = "ok" =>
             /\ written = sent
             /\ relay.amt["c2u"] = Len(sent)
       /\ relay.res = Ok => relay.ret[1] = Len(sent)

C20_Witness ==
    /\ relay.early = 2
    /\ relay.res = Ok
    /\ relay.written["c2u"] = PayloadSeq("c2u", 2)
    /\ relay.ret[1] = 2
    /\ result = Ok

\* the handshake has returned an error
HandshakeFailed == result # NoResult /\ result # Ok

\* C21: when the connect has succeeded and the write of the granted reply
\* fails, the handshake (SOCKS4 and SOCKS5) returns that I/O error, the
\* upstream stream it had opened is closed and no relay task is started; no
\* connection whose handshake returned an error keeps an upstream open
C21_UpstreamReleased ==
    /\ HandshakeFailed =>
          /\ pc = "done"
          /\ upstream # "open"
          /\ relay = RelayIdle
    /\ (connRes = Ok /\ HandshakeFailed) =>
          /\ result = WriteFailed
          /\ result.kind = "IoError"
          /\ upstream = "closed"
          /\ ~GrantedWritten
          /\ FinalReplies = <<>>

C21_Witness ==
    /\ version = SOCKS4
    /\ connRes = Ok
    /\ result = WriteFailed
    /\ upstream = "closed"
    /\ relay = RelayIdle

\* the same on the SOCKS5 path
C21_Socks5_Witness ==
    /\ version = SOCKS5
    /\ connRes = Ok
    /\ result = WriteFailed
    /\ upstream = "closed"
    /\ pc = "done"

====
